---- MODULE Spec2Model ----
(***************************************************************************)
(* EMS-Pred data pipeline and training loop.                               *)
(*                                                                         *)
(*   src/Data_Container.py   DataInput, EMSDataset, DataGenerator          *)
(*   src/Model_Trainer.py    ModelTrainer.train                            *)
(*                                                                         *)
(* Four specifications, one per object under study:                        *)
(*   SpecFeats  DataGenerator.get_feats, one loop iteration per step       *)
(*   SpecData   DataGenerator.date2len / get_data_loader and the three     *)
(*              EMSDataset splits with __len__ / __getitem__               *)
(*   SpecTrain  ModelTrainer.train, one pass (train / validate) per step   *)
(*   SpecInput  DataInput.load_data and the four (de)normalize methods     *)
(* A specification leaves the variables of the other objects at their      *)
(* idle values.                                                            *)
(***************************************************************************)
EXTENDS Integers, Sequences, FiniteSets, TLC

VARIABLES
    \* ---- DataGenerator (src/Data_Container.py:139-196)
    gen,              \* "args": constructor arguments bound, date2len not yet run;
                      \* "ready": constructed; "ValueError": date2len raised
    dt,               \* constructor argument dt (hours per timestep)
    day_timesteps,    \* self.day_timesteps = 24 // dt
    serial_len, daily_len, weekly_len,    \* self.serial_len, ... = obs_len
    train_test_dates, \* <<train_start, train_end, test_start, test_end>>, each <<MM, DD>>
    val_ratio,        \* <<num, den>>: the ratio num/den
    start_idx,        \* self.start_idx   (date2len's first result)
    mode_len,         \* self.mode_len    (date2len's second result)
    \* ---- one call of get_feats (src/Data_Container.py:175-183)
    feats_pc,         \* "idle" | "loop" | "done" | "IndexError"
    data_len,         \* data.shape[0]
    i,                \* the loop variable of get_feats
    serial, daily, weekly, y,   \* the four lists get_feats appends to
    reads,            \* the indices the last iteration subscripted data with
    \* ---- get_data_loader and the EMSDataset splits (src/Data_Container.py:68-173)
    loader_pc,        \* "idle" | "built" | "IndexError" | "AxisError"
    has_flow,         \* 'flow' in data.keys()
    datasets,         \* mode -> the EMSDataset of that mode
    call,             \* the last __len__ / __getitem__ call and what it returned
    \* ---- ModelTrainer.train (src/Model_Trainer.py:34-83)
    train_pc,         \* "idle" | "train" | "validate" | "final" | "returned"
    n_epochs,         \* self.n_epochs
    patience,         \* the early_stopper argument train was called with
    epoch,            \* the loop variable of train
    params,           \* the model's parameters: the number of train passes applied
    val_loss,         \* the local val_loss
    early_stopper,    \* the local early_stopper
    checkpoint,       \* the local checkpoint dict
    file,             \* <model_name>_best_model.pkl on disk
    stopped,          \* "no" | "early" | "budget": which return statement was taken
    val_log,          \* per validate pass so far: its mean loss and the parameters then
    \* ---- DataInput (src/Data_Container.py:8-65)
    M_dyn, M_sta,     \* self.M_dyn, self.M_sta = M_adj
    norm_opt,         \* self.norm_opt
    attrs,            \* the instance attributes _mean, _std, _max, _min that are set
    norm_log,         \* the normalize calls made so far, oldest first
    result            \* the last method call and what it returned or raised

genVars   == <<gen, dt, day_timesteps, serial_len, daily_len, weekly_len,
               train_test_dates, val_ratio, start_idx, mode_len>>
featsVars == <<feats_pc, data_len, i, serial, daily, weekly, y, reads>>
dataVars  == <<loader_pc, has_flow, datasets, call>>
trainVars == <<train_pc, n_epochs, patience, epoch, params, val_loss,
               early_stopper, checkpoint, file, stopped, val_log>>
inputVars == <<M_dyn, M_sta, norm_opt, attrs, norm_log, result>>
vars == <<genVars, featsVars, dataVars, trainVars, inputVars>>

---------------------------------------------------------------------------
(* Bounds of the model.                                                    *)
MaxSerial == 2          \* serial_len in 0..MaxSerial
MaxDaily == 3           \* daily_len in 0..MaxDaily
MaxWeekly == 2          \* weekly_len in 0..MaxWeekly
MaxSeries == 16         \* data.shape[0] in 0..MaxSeries (get_feats)

---------------------------------------------------------------------------
(* Python list / ndarray semantics.                                        *)

Max2(a, b) == IF a >= b THEN a ELSE b
Min2(a, b) == IF a <= b THEN a ELSE b
Max3(a, b, c) == Max2(a, Max2(b, c))

\* seq[::-1]
Reverse(s) == [k \in 1..Len(s) |-> s[Len(s) + 1 - k]]

\* a[j] on an axis of length n: j in -n..n-1 is accepted, a negative j counts
\* from the end; anything else raises IndexError.
IndexOk(n, j) == (0 - n) <= j /\ j < n
Resolve(n, j) == IF j < 0 THEN n + j ELSE j

\* a[lo:hi] on an axis of length n: the positions selected (0-based), after
\* Python's slice normalisation (negative bounds count from the end, both
\* bounds are clipped to 0..n).
SliceBound(n, b) == IF b < 0 THEN Max2(n + b, 0) ELSE Min2(b, n)
SlicePositions(n, lo, hi) ==
    LET a == SliceBound(n, lo)
        b == SliceBound(n, hi)
    IN  [k \in 1..Max2(b - a, 0) |-> a + k - 1]

\* The synthetic series of the window-alignment property: data[t] = t.
\* TLA+ sequences are 1-based: position t of the array is element t+1.
Series(n) == [t \in 1..n |-> t - 1]
At(data, pos) == data[pos + 1]

---------------------------------------------------------------------------
(* DataGenerator.get_periodic_skip_seq and get_feats.                      *)

\* p_steps of get_periodic_skip_seq
PSteps(p) ==
    IF p = "daily" THEN daily_len * day_timesteps
                   ELSE weekly_len * day_timesteps * 7

PLen(p) == IF p = "daily" THEN daily_len ELSE weekly_len

\* The subscripts of data in the order the loop appends them:
\* idx - p_steps*d for d = 1..daily_len (w = 1..weekly_len).
SkipSubscripts(idx, p) == [d \in 1..PLen(p) |-> idx - PSteps(p) * d]

\* get_periodic_skip_seq raises IndexError iff one subscript is out of range.
SkipOk(data, idx, p) ==
    \A d \in 1..PLen(p) : IndexOk(Len(data), SkipSubscripts(idx, p)[d])

\* get_periodic_skip_seq(data, idx, p), when it returns: p_seq[::-1]
get_periodic_skip_seq(data, idx, p) ==
    Reverse([d \in 1..PLen(p) |->
                At(data, Resolve(Len(data), SkipSubscripts(idx, p)[d]))])

\* start_idx of get_feats
FeatsStart ==
    Max3(serial_len, daily_len * day_timesteps, weekly_len * day_timesteps * 7)

\* data[i - serial_len : i]
SerialWindow(data, idx) ==
    LET pos == SlicePositions(Len(data), idx - serial_len, idx)
    IN  [k \in 1..Len(pos) |-> At(data, pos[k])]

\* Every subscript one iteration of get_feats applies to data, as written in
\* the code (before Python resolves a negative one).
IterReads(idx) ==
    {idx - serial_len + k - 1 : k \in 1..serial_len}
    \cup {SkipSubscripts(idx, "daily")[d] : d \in 1..daily_len}
    \cup {SkipSubscripts(idx, "weekly")[w] : w \in 1..weekly_len}

IterOk(data, idx) == SkipOk(data, idx, "daily") /\ SkipOk(data, idx, "weekly")

---------------------------------------------------------------------------
(* DataGenerator.__init__ and date2len.                                    *)

\* pd.date_range('20170101', '20171231'): the days of each month of 2017.
DaysInMonth == <<31, 28, 31, 30, 31, 30, 31, 31, 30, 31, 30, 31>>

\* str(year) + 'MMDD' is an element of date_range
DateValid(date) ==
    /\ date[1] \in 1..12
    /\ date[2] \in 1..DaysInMonth[date[1]]

RECURSIVE DaysBefore(_)
DaysBefore(month) ==
    IF month <= 1 THEN 0 ELSE DaysInMonth[month - 1] + DaysBefore(month - 1)

\* date_range.index(str(year) + 'MMDD'), for a date of the year
DateIndex(date) == DaysBefore(date[1]) + date[2] - 1

\* int(x) of a quotient n/d with d > 0: truncation toward zero
IntOfRatio(n, d) == IF n >= 0 THEN n \div d ELSE 0 - ((0 - n) \div d)

\* train_len before the validation part is carved out of it
TrainSpan ==
    (DateIndex(train_test_dates[2]) + 1 - DateIndex(train_test_dates[1]))
        * day_timesteps

\* validate_len = int(train_len * self.val_ratio)
ValidateLen == IntOfRatio(TrainSpan * val_ratio[1], val_ratio[2])

TestLen ==
    (DateIndex(train_test_dates[4]) + 1 - DateIndex(train_test_dates[3]))
        * day_timesteps

\* the first value date2len returns
Date2LenStart == DateIndex(train_test_dates[1])

\* the second value date2len returns
Date2LenModeLen ==
    [m \in {"train", "validate", "test"} |->
        IF m = "train" THEN TrainSpan - ValidateLen
        ELSE IF m = "validate" THEN ValidateLen
        ELSE TestLen]

NoModeLen == [m \in {"train", "validate", "test"} |-> 0]

\* self.start_idx, self.mode_len = self.date2len(year=year); list.index raises
\* ValueError for a date that is not a day of the year.
DataGeneratorInit ==
    /\ gen = "args"
    /\ IF \A k \in 1..4 : DateValid(train_test_dates[k])
         THEN /\ gen' = "ready"
              /\ start_idx' = Date2LenStart
              /\ mode_len' = Date2LenModeLen
         ELSE /\ gen' = "ValueError"
              /\ UNCHANGED <<start_idx, mode_len>>
    /\ UNCHANGED <<dt, day_timesteps, serial_len, daily_len, weekly_len,
                   train_test_dates, val_ratio>>
    /\ UNCHANGED <<featsVars, dataVars, trainVars, inputVars>>

\* The constructor's plain assignments (lines 141-144), for arguments drawn
\* from the given sets.
GenArgs(dts, serials, dailies, weeklies, dates, ratios) ==
    /\ gen = "args"
    /\ dt \in dts
    /\ day_timesteps = 24 \div dt
    /\ serial_len \in serials
    /\ daily_len \in dailies
    /\ weekly_len \in weeklies
    /\ train_test_dates \in dates
    /\ val_ratio \in ratios
    /\ start_idx = 0
    /\ mode_len = NoModeLen

FeatsIdle ==
    /\ feats_pc = "idle"
    /\ data_len = 0
    /\ i = 0
    /\ serial = <<>>
    /\ daily = <<>>
    /\ weekly = <<>>
    /\ y = <<>>
    /\ reads = [target |-> 0, subs |-> {}]

NoCall == [op |-> "none", mode |-> "train", item |-> 0, raised |-> FALSE,
           len |-> 0, x |-> <<>>, meta |-> <<>>, flow |-> FALSE, dyn_P |-> <<>>,
           y |-> 0]

DataIdle ==
    /\ loader_pc = "idle"
    /\ has_flow = FALSE
    /\ datasets = <<>>
    /\ call = NoCall

GenIdle ==
    /\ gen = "idle"
    /\ dt = 24
    /\ day_timesteps = 1
    /\ serial_len = 0
    /\ daily_len = 0
    /\ weekly_len = 0
    /\ train_test_dates = <<>>
    /\ val_ratio = <<0, 1>>
    /\ start_idx = 0
    /\ mode_len = NoModeLen

NoFile == [exists |-> FALSE, epoch |-> 0, state_dict |-> 0]

TrainIdle ==
    /\ train_pc = "idle"
    /\ n_epochs = 0
    /\ patience = 0
    /\ epoch = 0
    /\ params = 0
    /\ val_loss = 0
    /\ early_stopper = 0
    /\ checkpoint = [epoch |-> 0]
    /\ file = NoFile
    /\ stopped = "no"
    /\ val_log = <<>>

NoResult == [op |-> "none", raised |-> "no", x |-> <<>>, used |-> <<>>,
             dataset |-> <<>>]

InputIdle ==
    /\ M_dyn = 0
    /\ M_sta = 0
    /\ norm_opt = FALSE
    /\ attrs = <<>>
    /\ norm_log = <<>>
    /\ result = NoResult

---------------------------------------------------------------------------
(* get_feats, one iteration of its loop per step.                          *)

\* get_feats(data) is entered: the four lists are empty, the loop starts at
\* start_idx.
GetFeatsCall ==
    /\ gen = "ready"
    /\ feats_pc = "idle"
    /\ \E n \in 0..MaxSeries : data_len' = n
    /\ i' = FeatsStart
    /\ serial' = <<>>
    /\ daily' = <<>>
    /\ weekly' = <<>>
    /\ y' = <<>>
    /\ reads' = [target |-> 0, subs |-> {}]
    /\ feats_pc' = "loop"
    /\ UNCHANGED <<genVars, dataVars, trainVars, inputVars>>

\* One iteration of `for i in range(start_idx, data.shape[0])` that appends
\* a sample.
GetFeatsIter ==
    /\ feats_pc = "loop"
    /\ i < data_len
    /\ IterOk(Series(data_len), i)
    /\ serial' = Append(serial, SerialWindow(Series(data_len), i))
    /\ daily' = Append(daily, get_periodic_skip_seq(Series(data_len), i, "daily"))
    /\ weekly' = Append(weekly, get_periodic_skip_seq(Series(data_len), i, "weekly"))
    /\ y' = Append(y, At(Series(data_len), i))
    /\ reads' = [target |-> i, subs |-> IterReads(i)]
    /\ i' = i + 1
    /\ UNCHANGED <<feats_pc, data_len, genVars, dataVars,
                   trainVars, inputVars>>

\* An iteration in which get_periodic_skip_seq subscripts data out of range:
\* IndexError leaves get_feats, nothing is returned.
GetFeatsRaise ==
    /\ feats_pc = "loop"
    /\ i < data_len
    /\ ~IterOk(Series(data_len), i)
    /\ feats_pc' = "IndexError"
    /\ reads' = [target |-> i, subs |-> IterReads(i)]
    /\ UNCHANGED <<data_len, i, serial, daily, weekly, y, genVars, dataVars,
                   trainVars, inputVars>>

\* The range is exhausted: get_feats returns the four arrays.
GetFeatsReturn ==
    /\ feats_pc = "loop"
    /\ i >= data_len
    /\ feats_pc' = "done"
    /\ UNCHANGED <<data_len, i, serial, daily, weekly, y, reads, genVars, dataVars,
                   trainVars, inputVars>>

FeatsDates == {<<<<1, 1>>, <<1, 2>>, <<1, 3>>, <<1, 3>>>>}

InitFeats ==
    /\ GenArgs({12, 24}, 0..MaxSerial, 0..MaxDaily, 0..MaxWeekly,
               FeatsDates, {<<1, 2>>})
    /\ FeatsIdle
    /\ DataIdle
    /\ TrainIdle
    /\ InputIdle

NextFeats ==
    \/ DataGeneratorInit
    \/ GetFeatsCall
    \/ GetFeatsIter
    \/ GetFeatsRaise
    \/ GetFeatsReturn

SpecFeats == InitFeats /\ [][NextFeats]_vars

\* The sample at position k (1-based) of the four lists has this target index.
TargetOf(k) == FeatsStart + k - 1

(* C1: every emitted sample with daily_len >= 1 and weekly_len >= 1 has
   Serial = series[i-s..i-1], Daily = [series[i-d*p], ..., series[i-p]],
   Weekly = [series[i-w*7p], ..., series[i-7p]] and Target = series[i]
   (on the synthetic series, series[t] = t). *)
C1_WindowAlignment ==
    (daily_len >= 1 /\ weekly_len >= 1) =>
        \A k \in 1..Len(y) :
            /\ serial[k] = [j \in 1..serial_len |-> TargetOf(k) - serial_len + j - 1]
            /\ daily[k] = [j \in 1..daily_len |->
                              TargetOf(k) - (daily_len + 1 - j) * day_timesteps]
            /\ weekly[k] = [j \in 1..weekly_len |->
                              TargetOf(k) - (weekly_len + 1 - j) * day_timesteps * 7]
            /\ y[k] = TargetOf(k)

(* C2: every subscript applied to the series while building an emitted
   sample at target i lies in [0, i). *)
C2_ReadsInRange ==
    (feats_pc \in {"loop", "done"} /\ Len(y) > 0) =>
        \A j \in reads.subs : 0 <= j /\ j < reads.target

---------------------------------------------------------------------------
(* get_data_loader and EMSDataset.                                         *)

MaxItem == 2            \* __getitem__ is called with item in -MaxItem..MaxItem
ShortSeries == 9        \* the lengths of the series handed to get_data_loader
LongSeries == 24
RatioDen == 3           \* val_ratio in {0/RatioDen, ..., RatioDen/RatioDen}
DataMaxSerial == 1      \* serial_len in 1..DataMaxSerial (get_data_loader)
DataMaxDaily == 1       \* daily_len in 0..DataMaxDaily (get_data_loader)
DataMaxWeekly == 1      \* weekly_len in 0..DataMaxWeekly (get_data_loader)

\* data['meta'][t], on the same time axis as data['ems']
MetaSeries(n) == [t \in 1..n |-> <<"meta", t - 1>>]

\* data['flow'][key]: one snapshot per position of the cycle
FlowCycle == [key \in 1..day_timesteps |-> key - 1]

\* get_feats(data) returns (no subscript raises IndexError)
FeatsOk(data) == \A idx \in FeatsStart..(Len(data) - 1) : IterOk(data, idx)

\* the number of samples get_feats returns
NRows(data) == Max2(Len(data) - FeatsStart, 0)

\* Row k (0-based) of np.concatenate([weekly, daily, serial], axis=1) built
\* from get_feats(data); an empty daily or weekly array (shape (n, 0)) is
\* left out of the concatenation, which adds nothing either way.
XRow(data, k) ==
    get_periodic_skip_seq(data, FeatsStart + k, "weekly")
    \o get_periodic_skip_seq(data, FeatsStart + k, "daily")
    \o SerialWindow(data, FeatsStart + k)

\* self.start_idx after the first lines of prepare_xy
PrepareStartNoValidate(mode) ==
    IF mode = "train" THEN start_idx
    ELSE start_idx + mode_len["train"]

PrepareStart(mode) ==
    IF mode = "train" THEN start_idx
    ELSE IF mode = "validate" THEN start_idx + mode_len["train"]
    ELSE start_idx + mode_len["train"] + mode_len["validate"]

\* EMSDataset(mode=mode, ...): prepare_xy slices the three tensors with
\* [self.start_idx : self.start_idx + self.mode_len[self.mode]].
EMSDataset(mode, ems, meta) ==
    LET pos == SlicePositions(NRows(ems), PrepareStart(mode),
                              PrepareStart(mode) + mode_len[mode])
    IN  [mode |-> mode,
         start_idx |-> PrepareStart(mode),
         stop_idx |-> PrepareStart(mode) + mode_len[mode],
         x_seq |-> [k \in 1..Len(pos) |-> XRow(ems, pos[k])],
         meta_seq |-> [k \in 1..Len(pos) |-> XRow(meta, pos[k])],
         output |-> [k \in 1..Len(pos) |-> At(ems, FeatsStart + pos[k])]]

\* get_data_loader(data, ...): get_feats on data['ems'] and data['meta'], then
\* one EMSDataset per mode. get_feats may raise IndexError; with no sample at
\* all np.concatenate(obs, axis=1) is applied to 1-d arrays and raises.
GetDataLoader ==
    /\ gen = "ready"
    /\ loader_pc = "idle"
    /\ \E n \in {0, ShortSeries, LongSeries}, f \in BOOLEAN :
        /\ data_len' = n
        /\ has_flow' = f
        /\ IF ~FeatsOk(Series(n))
             THEN loader_pc' = "IndexError" /\ datasets' = <<>>
             ELSE IF NRows(Series(n)) = 0
             THEN loader_pc' = "AxisError" /\ datasets' = <<>>
             ELSE /\ loader_pc' = "built"
                  /\ datasets' = [m \in {"train", "validate", "test"} |->
                                    EMSDataset(m, Series(n), MetaSeries(n))]
    /\ UNCHANGED <<call, genVars, feats_pc, i, serial, daily, weekly, y, reads,
                   trainVars, inputVars>>

\* EMSDataset.__len__
DatasetLen(mode) == mode_len[mode]

\* Neither __len__ nor __getitem__ changes the dataset, so a call's result
\* does not depend on the calls before it: one call is taken per behaviour.
Len_ ==
    /\ loader_pc = "built"
    /\ call.op = "none"
    /\ \E m \in {"train", "validate", "test"} :
        call' = [NoCall EXCEPT !.op = "len", !.mode = m, !.len = DatasetLen(m)]
    /\ UNCHANGED <<loader_pc, has_flow, datasets, genVars, featsVars,
                   trainVars, inputVars>>

\* One scale of timestamp_query: Pt[::-1] with
\* Pt = [flow[(sample_y_time - t*factor) % rho] for t in 1..t_len]
FlowScale(sample_y_time, t_len, factor) ==
    Reverse([t \in 1..t_len |->
                At(FlowCycle, (sample_y_time - t * factor) % day_timesteps)])

\* EMSDataset.timestamp_query(flow, item); self.rho = day_timesteps and the
\* three lengths are the generator's.
timestamp_query(item) ==
    LET sample_y_time ==
            item + Max3(serial_len, daily_len * day_timesteps,
                        weekly_len * day_timesteps * 7)
    IN  FlowScale(sample_y_time, weekly_len, day_timesteps * 7)
        \o FlowScale(sample_y_time, daily_len, day_timesteps)
        \o FlowScale(sample_y_time, serial_len, 1)

\* EMSDataset.__getitem__(item): dyn_P first, then the three tensors are
\* subscripted with item (a negative item counts from the end; IndexError
\* when item is outside -n..n-1, n the number of rows the split holds).
GetItem ==
    /\ loader_pc = "built"
    /\ call.op = "none"
    /\ \E m \in {"train", "validate", "test"}, item \in (0 - MaxItem)..MaxItem :
        LET ds == datasets[m]
            n == Len(ds.x_seq)
        IN  IF IndexOk(n, item)
              THEN call' = [NoCall EXCEPT
                               !.op = "getitem", !.mode = m, !.item = item,
                               !.x = ds.x_seq[Resolve(n, item) + 1],
                               !.meta = ds.meta_seq[Resolve(n, item) + 1],
                               !.flow = has_flow,
                               !.dyn_P = IF has_flow THEN timestamp_query(item)
                                                     ELSE <<>>,
                               !.y = ds.output[Resolve(n, item) + 1]]
              ELSE call' = [NoCall EXCEPT
                               !.op = "getitem", !.mode = m, !.item = item,
                               !.raised = TRUE]
    /\ UNCHANGED <<loader_pc, has_flow, datasets, genVars, featsVars,
                   trainVars, inputVars>>

ValidDates == {<<1, 1>>, <<1, 2>>, <<2, 1>>}
BadDate == <<2, 30>>

\* Date ranges whose end is not before their start, and the ranges that name
\* a day the year does not have.
DataDates ==
    {d \in ValidDates \X ValidDates \X ValidDates \X ValidDates :
        /\ DateIndex(d[1]) <= DateIndex(d[2])
        /\ DateIndex(d[3]) <= DateIndex(d[4])}
    \cup {[k \in 1..4 |-> IF k = bad THEN BadDate ELSE <<1, 1>>] : bad \in 1..4}

InitData ==
    /\ GenArgs({12, 24}, 1..DataMaxSerial, 0..DataMaxDaily, 0..DataMaxWeekly, DataDates,
               {<<num, RatioDen>> : num \in 0..RatioDen})
    /\ FeatsIdle
    /\ DataIdle
    /\ TrainIdle
    /\ InputIdle

NextData ==
    \/ DataGeneratorInit
    \/ GetDataLoader
    \/ Len_
    \/ GetItem

SpecData == InitData /\ [][NextData]_vars

\* The validation ratio's floor is not trivial, every split holds a sample.
SplitsAllHold ==
    /\ loader_pc = "built"
    /\ \A m \in {"train", "validate", "test"} : Len(datasets[m].x_seq) > 0

(* C5: for a sample index 0 <= i < length() of a split with flow data, the
   flow window has one snapshot per x_seq entry and each is the snapshot of
   that entry's timestep: flow_cycle[t mod cycle_len] for the entry series[t]
   (on the synthetic series the entry is its own timestep t). *)
C5_FlowMatchesWindows ==
    (call.op = "getitem" /\ ~call.raised /\ call.flow /\ call.item >= 0) =>
        /\ Len(call.dyn_P) = Len(call.x)
        /\ \A j \in 1..Len(call.x) :
              call.dyn_P[j] = At(FlowCycle, call.x[j] % day_timesteps)

(* C6: the global start offset date2len returns is the train start date's
   day-ordinal times the timesteps per day. *)
C6_OffsetInTimesteps ==
    gen = "ready" =>
        start_idx = DateIndex(train_test_dates[1]) * day_timesteps

\* the sample indices (rows of the windowed tensors) a split holds
HeldRows(mode) ==
    {datasets[mode].output[k] - FeatsStart : k \in 1..Len(datasets[mode].output)}

(* C7: the splits slice the windowed tensors at train = [o, o+train_len),
   validate = [o+train_len, o+train_len+validate_len), test =
   [o+train_len+validate_len, o+train_len+validate_len+test_len); each holds
   the rows of its range that the tensors have; the ranges are pairwise
   disjoint; validate_len = floor(span*val_ratio) and train_len +
   validate_len = span, the train date span in timesteps. *)
C7_SplitRanges ==
    loader_pc = "built" =>
        LET o == start_idx
            span == (DateIndex(train_test_dates[2]) + 1
                        - DateIndex(train_test_dates[1])) * day_timesteps
            tr == mode_len["train"]
            va == mode_len["validate"]
            te == mode_len["test"]
            lo == [m \in {"train", "validate", "test"} |->
                      IF m = "train" THEN o
                      ELSE IF m = "validate" THEN o + tr ELSE o + tr + va]
            hi == [m \in {"train", "validate", "test"} |-> lo[m] + mode_len[m]]
            n == NRows(Series(data_len))
        IN  /\ va = (span * val_ratio[1]) \div val_ratio[2]
            /\ tr + va = span
            /\ te = (DateIndex(train_test_dates[4]) + 1
                        - DateIndex(train_test_dates[3])) * day_timesteps
            /\ \A m \in {"train", "validate", "test"} :
                  /\ datasets[m].start_idx = lo[m]
                  /\ datasets[m].stop_idx = hi[m]
                  /\ HeldRows(m) = {k \in lo[m]..(hi[m] - 1) : k < n}
                  /\ Len(datasets[m].x_seq) = Cardinality(HeldRows(m))
            /\ hi["train"] = lo["validate"]
            /\ hi["validate"] = lo["test"]
            /\ HeldRows("train") \cap HeldRows("validate") = {}
            /\ HeldRows("train") \cap HeldRows("test") = {}
            /\ HeldRows("validate") \cap HeldRows("test") = {}

\* Splits built from a train range starting after January 1st, with a
\* validation part whose length is a rounded-down fraction, each split holding
\* rows.
C7_Witness ==
    /\ SplitsAllHold
    /\ start_idx > 0
    /\ mode_len["validate"] > 0
    /\ (TrainSpan * val_ratio[1]) % val_ratio[2] # 0

(* C10: length() is the number of samples the split holds, get(i) returns a
   sample for 0 <= i < length() and fails for every other i, negative i
   included. *)
C10_BoundsChecked ==
    /\ call.op = "len" => call.len = Len(datasets[call.mode].x_seq)
    /\ call.op = "getitem" =>
          (call.raised <=> ~(0 <= call.item /\ call.item < mode_len[call.mode]))

---------------------------------------------------------------------------
(* ModelTrainer.train with modes = ['train', 'validate'].                  *)

MaxEpochs == 12         \* n_epochs in 0..MaxEpochs
MaxPatience == 3        \* train is called with early_stopper in 1..MaxPatience
MaxLoss == 2            \* a validate pass has a mean loss in 1..MaxLoss

\* early_stopper = 10 after an improving validate pass
PatienceReset == 10

\* np.inf: above every loss
Inf == MaxLoss + 1

\* torch.save(checkpoint, path). checkpoint['state_dict'] is what
\* self.model.state_dict() returned: references to the parameter tensors,
\* which optimizer.step() updates in place. What is written is
\* checkpoint['epoch'] and the values the parameters have when torch.save runs.
TorchSave(ckpt) == [exists |-> TRUE, epoch |-> ckpt.epoch, state_dict |-> params]

\* train(...) is entered: lines 36-37, then the first epoch (or, with
\* n_epochs = 0, the statements after the loop).
Train ==
    /\ train_pc = "idle"
    /\ \E p \in 1..MaxPatience : patience' = p /\ early_stopper' = p
    /\ checkpoint' = [epoch |-> 0]
    /\ val_loss' = Inf
    /\ epoch' = 1
    /\ train_pc' = IF n_epochs >= 1 THEN "train" ELSE "final"
    /\ UNCHANGED <<n_epochs, params, file, stopped, val_log>>
    /\ UNCHANGED <<genVars, featsVars, dataVars, inputVars>>

\* mode == 'train': every batch runs optimizer.step(), the parameters change.
TrainPass ==
    /\ train_pc = "train"
    /\ params' = params + 1
    /\ train_pc' = "validate"
    /\ UNCHANGED <<n_epochs, patience, epoch, val_loss, early_stopper,
                   checkpoint, file, stopped, val_log>>
    /\ UNCHANGED <<genVars, featsVars, dataVars, inputVars>>

\* the next iteration of `for epoch in range(1, self.n_epochs+1)`
NextEpochPc == IF epoch + 1 <= n_epochs THEN "train" ELSE "final"

\* mode == 'validate' with running_loss/step <= val_loss (lines 66-72)
ValidateImproves ==
    /\ train_pc = "validate"
    /\ \E loss \in 1..MaxLoss :
        /\ loss <= val_loss
        /\ val_loss' = loss
        /\ checkpoint' = [checkpoint EXCEPT !.epoch = epoch]
        /\ file' = TorchSave(checkpoint')
        /\ early_stopper' = PatienceReset
        /\ val_log' = Append(val_log, [loss |-> loss, params |-> params])
    /\ epoch' = epoch + 1
    /\ train_pc' = NextEpochPc
    /\ UNCHANGED <<n_epochs, patience, params, stopped>>
    /\ UNCHANGED <<genVars, featsVars, dataVars, inputVars>>

\* mode == 'validate' with a larger loss, the counter not yet used up
\* (lines 73-76)
ValidateNoImprove ==
    /\ train_pc = "validate"
    /\ early_stopper - 1 # 0
    /\ \E loss \in 1..MaxLoss :
        /\ ~(loss <= val_loss)
        /\ val_log' = Append(val_log, [loss |-> loss, params |-> params])
    /\ early_stopper' = early_stopper - 1
    /\ epoch' = epoch + 1
    /\ train_pc' = NextEpochPc
    /\ UNCHANGED <<n_epochs, patience, params, val_loss, checkpoint, file, stopped>>
    /\ UNCHANGED <<genVars, featsVars, dataVars, inputVars>>

\* mode == 'validate' with a larger loss and the counter reaching 0: return
\* (lines 75-78)
EarlyStop ==
    /\ train_pc = "validate"
    /\ early_stopper - 1 = 0
    /\ \E loss \in 1..MaxLoss :
        /\ ~(loss <= val_loss)
        /\ val_log' = Append(val_log, [loss |-> loss, params |-> params])
    /\ early_stopper' = early_stopper - 1
    /\ train_pc' = "returned"
    /\ stopped' = "early"
    /\ UNCHANGED <<n_epochs, patience, epoch, params, val_loss, checkpoint, file>>
    /\ UNCHANGED <<genVars, featsVars, dataVars, inputVars>>

\* the epoch budget is exhausted: the final torch.save, then return
\* (lines 80-83)
FinalSave ==
    /\ train_pc = "final"
    /\ file' = TorchSave(checkpoint)
    /\ train_pc' = "returned"
    /\ stopped' = "budget"
    /\ UNCHANGED <<n_epochs, patience, epoch, params, val_loss, early_stopper,
                   checkpoint, val_log>>
    /\ UNCHANGED <<genVars, featsVars, dataVars, inputVars>>

\* A ModelTrainer constructed with n_epochs from 0..MaxEpochs; no checkpoint
\* file on disk yet.
InitTrain ==
    /\ GenIdle
    /\ FeatsIdle
    /\ DataIdle
    /\ InputIdle
    /\ train_pc = "idle"
    /\ n_epochs \in 0..MaxEpochs
    /\ patience = 0
    /\ epoch = 0
    /\ params = 0
    /\ val_loss = 0
    /\ early_stopper = 0
    /\ checkpoint = [epoch |-> 0]
    /\ file = NoFile
    /\ stopped = "no"
    /\ val_log = <<>>

NextTrain ==
    \/ Train
    \/ TrainPass
    \/ ValidateImproves
    \/ ValidateNoImprove
    \/ EarlyStop
    \/ FinalSave

SpecTrain == InitTrain /\ [][NextTrain]_vars

\* The validate pass of epoch k was an improvement: its loss is <= every
\* earlier validate loss.
IsBest(k) == \A j \in 1..(k - 1) : val_log[k].loss <= val_log[j].loss

\* e*: the latest epoch whose validate loss was <= every earlier one
BestEpoch == CHOOSE k \in 1..Len(val_log) :
                 IsBest(k) /\ \A j \in (k + 1)..Len(val_log) : ~IsBest(j)

\* the consecutive non-improving validate passes since the best epoch
SinceBest == Len(val_log) - BestEpoch

(* C3: with configured patience P, an improving validate pass resets the
   early-stop counter to P and every other validate pass decrements it, and
   train stops exactly at the epoch of the P-th consecutive non-improving
   validate pass after the best. *)
C3_PatienceStops ==
    Len(val_log) >= 1 =>
        /\ early_stopper = patience - SinceBest
        /\ stopped = "early" => SinceBest = patience
        /\ stopped # "early" => SinceBest < patience

(* C4: whenever train has returned after at least one validate pass, the
   checkpoint file holds epoch = e* and the parameters as they were at the
   end of epoch e*'s validate pass. *)
C4_CheckpointIsBest ==
    (train_pc = "returned" /\ Len(val_log) >= 1) =>
        /\ file.exists
        /\ file.epoch = BestEpoch
        /\ file.state_dict = val_log[BestEpoch].params

---------------------------------------------------------------------------
(* DataInput: load_data and the normalize / denormalize methods.           *)

MaxLevel == 4           \* M_dyn and M_sta in -1..MaxLevel
MaxValue == 2           \* array entries in 0..MaxValue
MaxNormCalls == 2       \* at most MaxNormCalls normalize calls on one instance

\* The arrays handed to the four methods.
Arrays == {<<a, MaxValue>> : a \in 0..1}

\* npz_data['ems']
EmsArray == <<0, MaxValue>>

RECURSIVE SumOf(_)
SumOf(x) == IF x = <<>> THEN 0 ELSE x[1] + SumOf(Tail(x))

RECURSIVE SumSqOf(_)
SumSqOf(x) == IF x = <<>> THEN 0 ELSE x[1] * x[1] + SumSqOf(Tail(x))

SetMax(S) == CHOOSE m \in S : \A v \in S : v <= m
SetMin(S) == CHOOSE m \in S : \A v \in S : m <= v
Range(x) == {x[k] : k \in 1..Len(x)}

\* x.mean() as the fraction <<sum, n>>; x.std() by its square, the variance
\* (n*sum(x^2) - sum(x)^2) / n^2, as a fraction.
MeanOf(x) == <<SumOf(x), Len(x)>>
StdOf(x) == <<Len(x) * SumSqOf(x) - SumOf(x) * SumOf(x), Len(x) * Len(x)>>

\* self.<name> = value
SetAttr(obj, name, value) ==
    [a \in DOMAIN obj \cup {name} |-> IF a = name THEN value ELSE obj[a]]

\* attrs after std_normalize(x): self._mean, self._std = x.mean(), x.std()
StdFit(obj, x) == SetAttr(SetAttr(obj, "_mean", MeanOf(x)), "_std", StdOf(x))

\* attrs after minmax_normalize(x): self._max, self._min = x.max(), x.min()
MinMaxFit(obj, x) ==
    SetAttr(SetAttr(obj, "_max", SetMax(Range(x))), "_min", SetMin(Range(x)))

\* A returned array is recorded as the argument and the statistics it was
\* transformed with: (x - _mean)/_std, x*_std + _mean, 2*(x - _min)/(_max -
\* _min) - 1 and (_max - _min)*(x + 1)/2 + _min.
Used(obj, names) == [a \in names |-> obj[a]]

std_normalize ==
    /\ \E x \in Arrays :
        /\ attrs' = StdFit(attrs, x)
        /\ norm_log' = Append(norm_log, [kind |-> "std", x |-> x])
        /\ result' = [NoResult EXCEPT !.op = "std_normalize", !.x = x,
                         !.used = Used(attrs', {"_mean", "_std"})]
    /\ Len(norm_log) < MaxNormCalls
    /\ UNCHANGED <<M_dyn, M_sta, norm_opt>>
    /\ UNCHANGED <<genVars, featsVars, dataVars, trainVars>>

minmax_normalize ==
    /\ \E x \in Arrays :
        /\ attrs' = MinMaxFit(attrs, x)
        /\ norm_log' = Append(norm_log, [kind |-> "minmax", x |-> x])
        /\ result' = [NoResult EXCEPT !.op = "minmax_normalize", !.x = x,
                         !.used = Used(attrs', {"_max", "_min"})]
    /\ Len(norm_log) < MaxNormCalls
    /\ UNCHANGED <<M_dyn, M_sta, norm_opt>>
    /\ UNCHANGED <<genVars, featsVars, dataVars, trainVars>>

\* reading self._std / self._mean raises AttributeError when it was never set
std_denormalize ==
    /\ \E x \in Arrays :
        result' = IF {"_mean", "_std"} \subseteq DOMAIN attrs
                    THEN [NoResult EXCEPT !.op = "std_denormalize", !.x = x,
                             !.used = Used(attrs, {"_mean", "_std"})]
                    ELSE [NoResult EXCEPT !.op = "std_denormalize", !.x = x,
                             !.raised = "AttributeError"]
    /\ UNCHANGED <<M_dyn, M_sta, norm_opt, attrs, norm_log>>
    /\ UNCHANGED <<genVars, featsVars, dataVars, trainVars>>

minmax_denormalize ==
    /\ \E x \in Arrays :
        result' = IF {"_max", "_min"} \subseteq DOMAIN attrs
                    THEN [NoResult EXCEPT !.op = "minmax_denormalize", !.x = x,
                             !.used = Used(attrs, {"_max", "_min"})]
                    ELSE [NoResult EXCEPT !.op = "minmax_denormalize", !.x = x,
                             !.raised = "AttributeError"]
    /\ UNCHANGED <<M_dyn, M_sta, norm_opt, attrs, norm_log>>
    /\ UNCHANGED <<genVars, featsVars, dataVars, trainVars>>

\* The keys load_data has put into dataset when it reaches `return dataset`,
\* each with how its array derives from the archive's.
LoadedDataset ==
    LET base == [k \in {"ems", "meta"} |->
                    IF k = "ems" /\ norm_opt THEN "std_normalize" ELSE "as stored"]
        flow == IF M_dyn = 1 THEN [k \in {"flow"} |-> "sum over groups"]
                ELSE IF M_dyn = 2 THEN [k \in {"flow"} |-> "first M_dyn groups"]
                ELSE <<>>
        adj == [k \in {a \in {"neighbor_adj", "trans_adj", "semantic_adj"} :
                         \/ a = "neighbor_adj" /\ M_sta >= 1
                         \/ a = "trans_adj" /\ M_sta >= 2
                         \/ a = "semantic_adj" /\ M_sta >= 3} |-> "as stored"]
    IN  [k \in DOMAIN base \cup DOMAIN flow \cup DOMAIN adj |->
            IF k \in DOMAIN base THEN base[k]
            ELSE IF k \in DOMAIN flow THEN flow[k] ELSE adj[k]]

\* load_data raises ValueError: the else branch of the M_dyn chain (line 32)
\* or `if self.M_sta >= 4` (line 41)
LoadRaises == ~(M_dyn = 0 \/ M_dyn = 1 \/ M_dyn = 2) \/ M_sta >= 4

\* load_data(): std_normalize(npz_data['ems']) runs first when norm_opt is
\* set, whatever the levels are.
load_data ==
    /\ norm_opt => Len(norm_log) < MaxNormCalls
    /\ attrs' = IF norm_opt THEN StdFit(attrs, EmsArray) ELSE attrs
    /\ norm_log' = IF norm_opt
                     THEN Append(norm_log, [kind |-> "std", x |-> EmsArray])
                     ELSE norm_log
    /\ result' = IF LoadRaises
                   THEN [NoResult EXCEPT !.op = "load_data", !.raised = "ValueError"]
                   ELSE [NoResult EXCEPT !.op = "load_data", !.dataset = LoadedDataset]
    /\ UNCHANGED <<M_dyn, M_sta, norm_opt>>
    /\ UNCHANGED <<genVars, featsVars, dataVars, trainVars>>

\* DataInput(M_adj, data_dir, norm_opt): no statistics attribute is set.
InitInput ==
    /\ GenIdle
    /\ FeatsIdle
    /\ DataIdle
    /\ TrainIdle
    /\ M_dyn \in (0 - 1)..MaxLevel
    /\ M_sta \in (0 - 1)..MaxLevel
    /\ norm_opt \in BOOLEAN
    /\ attrs = <<>>
    /\ norm_log = <<>>
    /\ result = NoResult

NextInput ==
    \/ load_data
    \/ std_normalize
    \/ minmax_normalize
    \/ std_denormalize
    \/ minmax_denormalize

SpecInput == InitInput /\ [][NextInput]_vars

StatNames(kind) == IF kind = "std" THEN {"_mean", "_std"} ELSE {"_max", "_min"}

LastNorm == norm_log[Len(norm_log)]

(* C8: the instance holds exactly one set of fit statistics, that of the most
   recent normalize call; std_denormalize / minmax_denormalize fails when no
   normalize call has been made or when the most recent one was of the other
   kind. *)
C8_OneStatsSet ==
    /\ norm_log = <<>> => DOMAIN attrs = {}
    /\ norm_log # <<>> =>
          /\ DOMAIN attrs = StatNames(LastNorm.kind)
          /\ attrs = IF LastNorm.kind = "std" THEN StdFit(<<>>, LastNorm.x)
                                              ELSE MinMaxFit(<<>>, LastNorm.x)
    /\ result.op = "std_denormalize" =>
          ((norm_log = <<>> \/ LastNorm.kind # "std") => result.raised # "no")
    /\ result.op = "minmax_denormalize" =>
          ((norm_log = <<>> \/ LastNorm.kind # "minmax") => result.raised # "no")

(* C9: load_data raises for every M_dyn outside {0,1,2} and every M_sta
   outside {0,1,2,3}; otherwise it returns ems, meta, flow iff M_dyn >= 1,
   and neighbor_adj, trans_adj, semantic_adj iff M_sta >= 1, 2, 3. *)
C9_InvalidLevelsFail ==
    result.op = "load_data" =>
        /\ (result.raised # "no") <=> (M_dyn \notin 0..2 \/ M_sta \notin 0..3)
        /\ (result.raised = "no") =>
              DOMAIN result.dataset =
                  {"ems", "meta"}
                  \cup (IF M_dyn >= 1 THEN {"flow"} ELSE {})
                  \cup (IF M_sta >= 1 THEN {"neighbor_adj"} ELSE {})
                  \cup (IF M_sta >= 2 THEN {"trans_adj"} ELSE {})
                  \cup (IF M_sta >= 3 THEN {"semantic_adj"} ELSE {})

====
